---- MODULE Spec2Model ----
(***************************************************************************)
(* The Mixture-of-Agents chat turn of bot.py: the Streamlit script run     *)
(* that appends the user's prompt, starts the elapsed-time timer thread,   *)
(* fans the conversation out to the reference models, streams the          *)
(* aggregator's answer and stops the timer.                                *)
(*                                                                         *)
(* Two threads are modelled: the script thread (pc) and the timer thread   *)
(* of the current turn (tpc).  They share the stop event and the           *)
(* SharedValue cell with its lock.  Calls into utils.py and the datasets   *)
(* library are environment steps whose outcome (a value or an exception)   *)
(* is chosen nondeterministically.  Streamlit rendering calls are not      *)
(* modelled.  The sidebar buttons that replace or rewrite the              *)
(* conversation are modelled with the sharing of list and dict objects     *)
(* that lines 195, 207 and 237 set up.                                     *)
(***************************************************************************)
EXTENDS Naturals, Sequences, FiniteSets, TLC

(* ------------------------------ bounds -------------------------------- *)

\* A prompt is accepted only while the conversation, with the user message
\* and the answer, stays within this many messages.
MaxMessages == 3

\* The aggregator stream delivers at most this many fragments.
MaxChunks == 2

\* Largest elapsed time (in clock ticks) the timer thread can read.
MaxElapsed == 2

\* In the sessions of several conversations a prompt is accepted only
\* while the conversation stays within this many messages ...
MaxSessionMessages == 4

\* ... and a first question only while this many conversations are saved.
MaxConversations == 1

(* ------------------------------ values -------------------------------- *)

\* default_reference_models, cut down to three identifiers.
default_reference_models == <<"M1", "M2", "M3">>

Models == {default_reference_models[i] : i \in 1..Len(default_reference_models)}

default_system_prompt == "sys"

\* Prompts typed into st.chat_input.
Prompts == {"q"}

\* Texts a reference model's completion call can return.
Outputs == {"x", "y"}

\* Texts typed into the "Add your instructions" text area.
Instructions == {"", "brief"}

\* delta.content values the aggregator stream can deliver.
Fragments == {"a", "b"}

\* An output slot of eval_set that no worker has filled yet; also "no model".
NONE == "<none>"

\* The output slot of a row whose worker raised.
RAISED == "<raised>"

NoRequest == [model |-> NONE, messages |-> <<>>, references |-> <<>>]

VARIABLES
    \* st.session_state
    messages,            \* the conversation, a sequence of [role, content]
    conversations,       \* saved conversations
    selected_models,     \* the checked reference models
    user_system_prompt,  \* the additional instructions last submitted
    \* object identity inside st.session_state
    opened,              \* index of the saved conversation whose list the
                         \* session list is, 0 when it is a list of its own
    sysid,               \* identity of the dict at messages[0]
    \* locals of main() during a turn
    pc,                  \* position of the script thread
    model,               \* the aggregator chosen in the selectbox
    working_models,      \* local selected_models (lines 250-252)
    data,                \* the dict handed to Dataset.from_dict
    eval_set,            \* the dataset rows
    references,          \* outputs collected from eval_set
    full_response,       \* accumulator of the streamed answer
    shown,               \* the elapsed time last rendered
    getpc,               \* position inside SharedValue.get
    \* timer thread, stop event and SharedValue of the turn
    tpc,                 \* position of the timer thread
    stop_event,          \* threading.Event flag
    value,               \* SharedValue.value
    lock,                \* holder of SharedValue.lock
    reading,             \* the last time.time() - start_time evaluated
    \* history of the turn (observations, read by no action's guard)
    errors,              \* st.error calls
    appended,            \* assistant messages appended
    joined,              \* timer_thread.join() has returned
    setsAfterStop,       \* SharedValue.set writes after stop_event.set()
    lastCompleted,       \* value stored by the last set that has returned
    delivered,           \* fragments the stream has delivered, in order
    replies,             \* what each reference call returned, by row
    refCalls,            \* completion calls issued, by row
    refRequests,         \* the request of each reference call, by row
    aggCalls,            \* aggregator calls issued
    aggRequest,          \* the request of the aggregator call
    convAtStart,         \* the conversation as the turn started
    failure,             \* what made the turn fail
    leaked,              \* a timer thread was left running by an earlier run
    \* history of the session (observations, read by no action's guard)
    ledger               \* turns started and completed, per message list

session == <<messages, conversations, selected_models, user_system_prompt,
             opened, sysid>>
locals == <<model, working_models, data, eval_set, references, full_response, shown, getpc>>
timer == <<tpc, stop_event, value, lock, reading>>
history == <<errors, appended, joined, setsAfterStop, lastCompleted, delivered,
             replies, refCalls, refRequests, aggCalls, aggRequest, convAtStart,
             failure, leaked>>
vars == <<session, pc, locals, timer, history, ledger>>

(* ------------------------------ helpers ------------------------------- *)

Range(s) == {s[i] : i \in 1..Len(s)}

Message(role, content) == [role |-> role, content |-> content]

\* All orders in which list(set) can enumerate S.
Orders(S) == {s \in [1..Cardinality(S) -> S] : Range(s) = S}

EmptyData == [instruction |-> <<>>, references |-> <<>>, model |-> <<>>]

\* The rows Dataset.from_dict builds from the columns of d, one per model,
\* with no "output" column value yet.
Rows(d) ==
    [i \in 1..Len(d.model) |->
        [model |-> d.model[i], instruction |-> d.instruction[i],
         references |-> d.references[i], output |-> NONE]]

\* Lines 250-252 without the fallback of lines 251-252.
WorkingListsNoFallback(selected, main) ==
    Orders(selected \ {main})

\* Lines 250-252 without the set difference of line 250.
WorkingListsKeepAggregator(selected, main) ==
    IF selected = {} THEN {<<main>>} ELSE Orders(selected)

\* Lines 250-252: the selected models without the aggregator, or the
\* aggregator alone when nothing else is selected; list(set) fixes no order.
WorkingLists(selected, main) ==
    LET others == selected \ {main}
    IN  IF others = {} THEN {<<main>>} ELSE Orders(others)

(* ------------------------------- Init --------------------------------- *)

InitLocals ==
    /\ model = NONE
    /\ working_models = <<>>
    /\ data = EmptyData
    /\ eval_set = <<>>
    /\ references = <<>>
    /\ full_response = ""
    /\ shown = 0
    /\ getpc = "none"

InitTimer ==
    /\ tpc = "none"
    /\ stop_event = FALSE
    /\ value = 0
    /\ lock = "free"
    /\ reading = 0

InitHistory ==
    /\ errors = 0
    /\ appended = 0
    /\ joined = FALSE
    /\ setsAfterStop = 0
    /\ lastCompleted = 0
    /\ delivered = <<>>
    /\ replies = <<>>
    /\ refCalls = <<>>
    /\ refRequests = <<>>
    /\ aggCalls = 0
    /\ aggRequest = NoRequest
    /\ convAtStart = <<>>
    /\ failure = NONE

\* A session before its first prompt, with the reference models S checked.
InitSelecting(S) ==
    /\ messages = <<Message("system", default_system_prompt)>>
    /\ conversations = <<>>
    /\ selected_models = S
    /\ user_system_prompt = ""
    /\ opened = 0
    /\ sysid = 1
    /\ ledger = [started |-> 0, completed |-> 0, saved |-> <<>>]
    /\ pc = "idle"
    /\ InitLocals
    /\ InitTimer
    /\ InitHistory
    /\ leaked = FALSE

\* Lines 83-93: a fresh session; every default reference model is checked.
Init == InitSelecting(Models)

(* ----------------------- script thread: sidebar ----------------------- *)

\* Line 207 makes the session list and the list of a saved conversation
\* one object: the saved conversations once that list has become list.
SameList(list) ==
    IF opened = 0 THEN conversations
    ELSE [conversations EXCEPT ![opened].messages = list]

\* The turns recorded for the saved lists once those of the session list
\* are t.
SameLedger(t) ==
    IF opened = 0 THEN ledger.saved
    ELSE [ledger.saved EXCEPT ![opened] = t]

\* Lines 181-187: a reference-model checkbox is toggled; the script reruns
\* and adds the model to, or removes it from, the selected models.
ToggleModel(m) ==
    /\ pc = "idle"
    /\ selected_models' = IF m \in selected_models
                          THEN selected_models \ {m}
                          ELSE selected_models \cup {m}
    /\ UNCHANGED <<messages, conversations, user_system_prompt, opened, sysid,
                   pc, locals, timer, history, ledger>>

\* Line 194: the system prompt with the additional instructions.
combined_prompt(user_prompt) ==
    default_system_prompt \o "\n\nAdditional instructions: " \o user_prompt

\* Lines 192-196: "Update System Instructions".  The content of the dict
\* at messages[0] is overwritten in place, so every saved list that holds
\* the same dict shows the new content as well.
UpdateSystemInstructions(user_prompt) ==
    /\ pc = "idle"
    /\ user_system_prompt' = user_prompt
    /\ messages' = [messages EXCEPT ![1].content = combined_prompt(user_prompt)]
    /\ conversations' =
          [k \in 1..Len(conversations) |->
              IF conversations[k].sysid = sysid
              THEN [conversations[k] EXCEPT
                       !.messages[1].content = combined_prompt(user_prompt)]
              ELSE conversations[k]]
    /\ UNCHANGED <<selected_models, opened, sysid, pc, locals, timer, history,
                   ledger>>

\* The identity of a dict created now: one that no saved list holds.
FreshId ==
    CHOOSE n \in 1..(Len(conversations) + 1) :
        /\ \A k \in 1..Len(conversations) : conversations[k].sysid # n
        /\ \A m \in 1..(n - 1) :
              \E k \in 1..Len(conversations) : conversations[k].sysid = m

\* Lines 199-201: "Start New Conversation".  The session gets a new list
\* holding a new system dict with the current system content.
StartNewConversation ==
    /\ pc = "idle"
    /\ messages' = <<Message("system", messages[1].content)>>
    /\ sysid' = FreshId
    /\ opened' = 0
    /\ ledger' = [ledger EXCEPT !.started = 0, !.completed = 0]
    /\ UNCHANGED <<conversations, selected_models, user_system_prompt, pc,
                   locals, timer, history>>

\* Reopening a saved conversation the way the chat display reads it, from
\* the second element on.
OpenConversationWithoutSystem(idx) ==
    /\ pc = "idle"
    /\ messages' = Tail(conversations[idx].messages)
    /\ sysid' = conversations[idx].sysid
    /\ opened' = idx
    /\ ledger' = [ledger EXCEPT !.started = ledger.saved[idx].started,
                                !.completed = ledger.saved[idx].completed]
    /\ UNCHANGED <<conversations, selected_models, user_system_prompt, pc,
                   locals, timer, history>>

\* Lines 205-208: a previous conversation is reopened.  The session list
\* becomes the saved list itself, not a copy of it.
OpenConversation(idx) ==
    /\ pc = "idle"
    /\ messages' = conversations[idx].messages
    /\ sysid' = conversations[idx].sysid
    /\ opened' = idx
    /\ ledger' = [ledger EXCEPT !.started = ledger.saved[idx].started,
                                !.completed = ledger.saved[idx].completed]
    /\ UNCHANGED <<conversations, selected_models, user_system_prompt, pc,
                   locals, timer, history>>

(* ------------------------ script thread: a turn ----------------------- *)

\* Lines 172, 229-245: a prompt is submitted with aggregator a selected.
\* The user message is appended, a first question is saved, and the timer
\* thread is started on a fresh stop event and a fresh SharedValue.
Prompt(a, prompt) ==
    /\ pc = "idle"
    /\ messages' = Append(messages, Message("user", prompt))
    /\ conversations' =
          IF Len(messages') = 2
          THEN Append(SameList(messages'),
                      [first_question |-> prompt, messages |-> messages',
                       sysid |-> sysid])
          ELSE SameList(messages')
    /\ ledger' =
          LET now == [started   |-> ledger.started + 1,
                      completed |-> ledger.completed]
          IN  [started   |-> now.started,
               completed |-> now.completed,
               saved     |-> IF Len(messages') = 2
                             THEN Append(SameLedger(now), now)
                             ELSE SameLedger(now)]
    /\ model' = a
    /\ stop_event' = FALSE
    /\ value' = 0
    /\ lock' = "free"
    /\ reading' = 0
    /\ tpc' = "check"
    /\ pc' = "timer_started"
    /\ lastCompleted' = 0
    /\ convAtStart' = messages'
    /\ UNCHANGED <<selected_models, user_system_prompt, opened, sysid,
                   working_models, data, eval_set, references,
                   full_response, shown, getpc>>
    /\ UNCHANGED <<errors, appended, joined, setsAfterStop, delivered, replies,
                   refCalls, refRequests, aggCalls, aggRequest, failure, leaked>>

\* Lines 247-258: the working set of reference models and the columns of
\* the dataset: the conversation and an empty reference list per model.
ResolveModels ==
    /\ pc = "timer_started"
    /\ \E w \in WorkingLists(selected_models, model) :
          /\ working_models' = w
          /\ data' = [instruction |-> [i \in 1..Len(w) |-> messages],
                      references  |-> [i \in 1..Len(w) |-> <<>>],
                      model       |-> w]
    /\ pc' = "from_dict"
    /\ UNCHANGED <<ledger, session, model, eval_set, references, full_response, shown,
                   getpc, timer, history>>

\* Line 260, then 262-274: Dataset.from_dict returns the rows and the try
\* block starts eval_set.map with one process per model.
FromDict ==
    /\ pc = "from_dict"
    /\ eval_set' = Rows(data)
    /\ replies' = [i \in 1..Len(working_models) |-> NONE]
    /\ refCalls' = [i \in 1..Len(working_models) |-> 0]
    /\ refRequests' = [i \in 1..Len(working_models) |-> NoRequest]
    /\ pc' = "map"
    /\ UNCHANGED <<ledger, session, model, working_models, data, references,
                   full_response, shown, getpc, timer>>
    /\ UNCHANGED <<errors, appended, joined, setsAfterStop, lastCompleted,
                   delivered, aggCalls, aggRequest, convAtStart, failure, leaked>>

\* Line 260: Dataset.from_dict raises.  The call is outside the try block,
\* so the exception leaves main() with no handler and no finally clause.
FromDictRaises ==
    /\ pc = "from_dict"
    /\ pc' = "escaped"
    /\ failure' = "from_dict"
    /\ UNCHANGED <<ledger, session, locals, timer>>
    /\ UNCHANGED <<errors, appended, joined, setsAfterStop, lastCompleted,
                   delivered, replies, refCalls, refRequests, aggCalls,
                   aggRequest, convAtStart, leaked>>

\* Lines 308-310: the except clause reports the error; the finally clause
\* is next.
Except(cause) ==
    /\ errors' = errors + 1
    /\ failure' = cause
    /\ pc' = "finally"

\* A process_fn that hands the outputs produced so far to the model.
process_fn_with_peer_outputs(i, text) ==
    /\ pc = "map"
    /\ eval_set[i].output = NONE
    /\ refCalls' = [refCalls EXCEPT ![i] = @ + 1]
    /\ refRequests' = [refRequests EXCEPT ![i] =
                          [model      |-> eval_set[i].model,
                           messages   |-> eval_set[i].instruction,
                           references |->
                              SelectSeq([j \in 1..Len(eval_set) |-> eval_set[j].output],
                                        LAMBDA o : o \notin {NONE, RAISED})]]
    /\ replies' = [replies EXCEPT ![i] = text]
    /\ eval_set' = [eval_set EXCEPT ![i].output = text]
    /\ UNCHANGED <<ledger, session, pc, model, working_models, data, references,
                   full_response, shown, getpc, timer>>
    /\ UNCHANGED <<errors, appended, joined, setsAfterStop, lastCompleted,
                   delivered, aggCalls, aggRequest, convAtStart, failure, leaked>>

\* Line 273: the number of worker processes of eval_set.map.
num_proc == Len(working_models)

\* Lines 121-140, run by eval_set.map for row i: process_fn sends the row's
\* conversation and reference list to the row's model and stores the text.
process_fn(i, text) ==
    /\ pc = "map"
    /\ eval_set[i].output = NONE
    /\ refCalls' = [refCalls EXCEPT ![i] = @ + 1]
    /\ refRequests' = [refRequests EXCEPT ![i] =
                          [model      |-> eval_set[i].model,
                           messages   |-> eval_set[i].instruction,
                           references |-> eval_set[i].references]]
    /\ replies' = [replies EXCEPT ![i] = text]
    /\ eval_set' = [eval_set EXCEPT ![i].output = text]
    /\ UNCHANGED <<ledger, session, pc, model, working_models, data, references,
                   full_response, shown, getpc, timer>>
    /\ UNCHANGED <<errors, appended, joined, setsAfterStop, lastCompleted,
                   delivered, aggCalls, aggRequest, convAtStart, failure, leaked>>

\* A tolerant fan-out: the failing row is given an empty output.
process_fn_raises_tolerated(i) ==
    /\ pc = "map"
    /\ eval_set[i].output = NONE
    /\ refCalls' = [refCalls EXCEPT ![i] = @ + 1]
    /\ refRequests' = [refRequests EXCEPT ![i] =
                          [model      |-> eval_set[i].model,
                           messages   |-> eval_set[i].instruction,
                           references |-> eval_set[i].references]]
    /\ eval_set' = [eval_set EXCEPT ![i].output = ""]
    /\ failure' = "reference"
    /\ UNCHANGED <<ledger, session, pc, model, working_models, data, references,
                   full_response, shown, getpc, timer>>
    /\ UNCHANGED <<errors, appended, joined, setsAfterStop, lastCompleted,
                   delivered, replies, aggCalls, aggRequest, convAtStart, leaked>>

\* Lines 126-132 raising in the worker of row i: the worker process ends
\* with the exception, which eval_set.map holds until it has every worker's
\* result.
process_fn_raises(i) ==
    /\ pc = "map"
    /\ eval_set[i].output = NONE
    /\ refCalls' = [refCalls EXCEPT ![i] = @ + 1]
    /\ refRequests' = [refRequests EXCEPT ![i] =
                          [model      |-> eval_set[i].model,
                           messages   |-> eval_set[i].instruction,
                           references |-> eval_set[i].references]]
    /\ eval_set' = [eval_set EXCEPT ![i].output = RAISED]
    /\ failure' = "reference"
    /\ UNCHANGED <<ledger, session, pc, model, working_models, data, references,
                   full_response, shown, getpc, timer>>
    /\ UNCHANGED <<errors, appended, joined, setsAfterStop, lastCompleted,
                   delivered, replies, aggCalls, aggRequest, convAtStart, leaked>>

\* A map that raises as soon as one worker has raised.
MapRaisesAtFirstFailure ==
    /\ pc = "map"
    /\ \E i \in 1..Len(eval_set) : eval_set[i].output = RAISED
    /\ Except("reference")
    /\ UNCHANGED <<ledger, session, locals, timer>>
    /\ UNCHANGED <<appended, joined, setsAfterStop, lastCompleted, delivered,
                   replies, refCalls, refRequests, aggCalls, aggRequest,
                   convAtStart, leaked>>

\* Lines 266-274 raising: every worker process has ended and one of them
\* raised; eval_set.map raises its exception, which the except clause of
\* line 308 catches.
MapRaises ==
    /\ pc = "map"
    /\ \A i \in 1..Len(eval_set) : eval_set[i].output # NONE
    /\ \E i \in 1..Len(eval_set) : eval_set[i].output = RAISED
    /\ Except("reference")
    /\ UNCHANGED <<ledger, session, locals, timer>>
    /\ UNCHANGED <<appended, joined, setsAfterStop, lastCompleted, delivered,
                   replies, refCalls, refRequests, aggCalls, aggRequest,
                   convAtStart, leaked>>

\* Line 275 reading the first row for every item.
CollectFirstRow(rows) ==
    [i \in 1..Len(rows) |-> rows[1].output]

\* Line 275: the "output" of every row, in row order.
CollectOutputs(rows) ==
    [i \in 1..Len(rows) |-> rows[i].output]

\* Lines 275-278: map has returned; the outputs become the references and
\* the dataset is rebuilt with them.
MapReturns ==
    /\ pc = "map"
    /\ \A i \in 1..Len(eval_set) : eval_set[i].output \notin {NONE, RAISED}
    /\ references' = CollectOutputs(eval_set)
    /\ data' = [data EXCEPT !.references = references']
    /\ eval_set' = Rows(data')
    /\ pc' = "progress"
    /\ getpc' = "call"
    /\ UNCHANGED <<ledger, session, model, working_models, full_response, shown,
                   timer, history>>

\* Line 277: the second Dataset.from_dict raises, inside the try block.
MapReturnsFromDictRaises ==
    /\ pc = "map"
    /\ \A i \in 1..Len(eval_set) : eval_set[i].output \notin {NONE, RAISED}
    /\ references' = CollectOutputs(eval_set)
    /\ data' = [data EXCEPT !.references = references']
    /\ Except("from_dict")
    /\ UNCHANGED <<ledger, session, model, working_models, eval_set, full_response,
                   shown, getpc, timer>>
    /\ UNCHANGED <<appended, joined, setsAfterStop, lastCompleted, delivered,
                   replies, refCalls, refRequests, aggCalls, aggRequest,
                   convAtStart, leaked>>

(* ---------------- script thread: SharedValue.get (26-28) -------------- *)

\* Line 27: get enters "with self.lock".
GetAcquire ==
    /\ getpc = "call"
    /\ lock = "free"
    /\ lock' = "main"
    /\ getpc' = "locked"
    /\ UNCHANGED <<ledger, session, pc, model, working_models, data, eval_set,
                   references, full_response, shown, tpc, stop_event, value,
                   reading, history>>

\* Line 28: the value is read under the lock.
GetRead ==
    /\ getpc = "locked"
    /\ shown' = value
    /\ getpc' = "read"
    /\ UNCHANGED <<ledger, session, pc, model, working_models, data, eval_set,
                   references, full_response, timer, history>>

\* Line 28, leaving the with block; lines 280 and 299 render the value and
\* the script goes on to the aggregator call or to the next fragment.
GetRelease ==
    /\ getpc = "read"
    /\ lock' = "free"
    /\ getpc' = "none"
    /\ pc' = IF pc = "progress" THEN "aggregate" ELSE "streaming"
    /\ UNCHANGED <<ledger, session, model, working_models, data, eval_set, references,
                   full_response, shown, tpc, stop_event, value, reading, history>>

(* ------------------- script thread: the aggregation ------------------- *)

\* An aggregator call that writes the references into the system message
\* of the conversation itself.
AggregateInjectingInPlace ==
    /\ pc = "aggregate"
    /\ aggCalls' = aggCalls + 1
    /\ messages' = [messages EXCEPT ![1].content = @ \o "+references"]
    /\ aggRequest' = [model |-> model, messages |-> messages',
                      references |-> references]
    /\ full_response' = ""
    /\ pc' = "streaming"
    /\ UNCHANGED <<conversations, selected_models, user_system_prompt, opened,
                   sysid, ledger>>
    /\ UNCHANGED <<model, working_models, data, eval_set, references,
                   shown, getpc, timer>>
    /\ UNCHANGED <<errors, appended, joined, setsAfterStop, lastCompleted,
                   delivered, replies, refCalls, refRequests, convAtStart,
                   failure, leaked>>

\* Lines 282-294: the streaming aggregator call is issued with the
\* conversation and the references; the accumulator starts empty.
Aggregate ==
    /\ pc = "aggregate"
    /\ aggCalls' = aggCalls + 1
    /\ aggRequest' = [model |-> model, messages |-> messages,
                      references |-> references]
    /\ full_response' = ""
    /\ pc' = "streaming"
    /\ UNCHANGED <<ledger, session, model, working_models, data, eval_set, references,
                   shown, getpc, timer>>
    /\ UNCHANGED <<errors, appended, joined, setsAfterStop, lastCompleted,
                   delivered, replies, refCalls, refRequests, convAtStart,
                   failure, leaked>>

\* Lines 283-290 raising: the aggregator call fails at its start.
AggregateRaises ==
    /\ pc = "aggregate"
    /\ aggCalls' = aggCalls + 1
    /\ aggRequest' = [model |-> model, messages |-> messages,
                      references |-> references]
    /\ Except("aggregator_start")
    /\ UNCHANGED <<ledger, session, locals, timer>>
    /\ UNCHANGED <<appended, joined, setsAfterStop, lastCompleted, delivered,
                   replies, refCalls, refRequests, convAtStart, leaked>>

\* Line 296 with the operands swapped.
AccumulateInFront(full, chunk) == chunk \o full

\* Line 296: full_response += chunk.choices[0].delta.content
Accumulate(full, chunk) == full \o chunk

\* Lines 295-297: the stream delivers a fragment, which is accumulated;
\* line 299 then reads the elapsed time.
NextChunk(chunk) ==
    /\ pc = "streaming"
    /\ Len(delivered) < MaxChunks
    /\ delivered' = Append(delivered, chunk)
    /\ full_response' = Accumulate(full_response, chunk)
    /\ pc' = "stream_get"
    /\ getpc' = "call"
    /\ UNCHANGED <<ledger, session, model, working_models, data, eval_set, references,
                   shown, timer>>
    /\ UNCHANGED <<errors, appended, joined, setsAfterStop, lastCompleted,
                   replies, refCalls, refRequests, aggCalls, aggRequest,
                   convAtStart, failure, leaked>>

\* A stream failure that first stores what was accumulated.
StreamRaisesKeepingPartial ==
    /\ pc = "streaming"
    /\ messages' = Append(messages, Message("assistant", full_response))
    /\ Except("stream")
    /\ UNCHANGED <<conversations, selected_models, user_system_prompt, opened,
                   sysid, ledger, locals, timer>>
    /\ UNCHANGED <<appended, joined, setsAfterStop, lastCompleted, delivered,
                   replies, refCalls, refRequests, aggCalls, aggRequest,
                   convAtStart, leaked>>

\* Line 295 raising: the stream fails, after any number of fragments.
StreamRaises ==
    /\ pc = "streaming"
    /\ Except("stream")
    /\ UNCHANGED <<ledger, session, locals, timer>>
    /\ UNCHANGED <<appended, joined, setsAfterStop, lastCompleted, delivered,
                   replies, refCalls, refRequests, aggCalls, aggRequest,
                   convAtStart, leaked>>

\* A stream end that stores the answer over the prompt it answers.
StreamEndsReplacingPrompt ==
    /\ pc = "streaming"
    /\ messages' = [messages EXCEPT
                       ![Len(messages)] = Message("assistant", full_response)]
    /\ appended' = appended + 1
    /\ pc' = "finally"
    /\ conversations' = SameList(messages')
    /\ ledger' =
          LET now == [started   |-> ledger.started,
                      completed |-> ledger.completed + 1]
          IN  [started   |-> now.started,
               completed |-> now.completed,
               saved     |-> SameLedger(now)]
    /\ UNCHANGED <<selected_models, user_system_prompt, opened, sysid, locals,
                   timer>>
    /\ UNCHANGED <<errors, joined, setsAfterStop, lastCompleted, delivered,
                   replies, refCalls, refRequests, aggCalls, aggRequest,
                   convAtStart, failure, leaked>>

\* Lines 300-306: the stream ends; the accumulated text is appended to the
\* conversation as the assistant message and the try block is left.
StreamEnds ==
    /\ pc = "streaming"
    /\ messages' = Append(messages, Message("assistant", full_response))
    /\ appended' = appended + 1
    /\ pc' = "finally"
    /\ conversations' = SameList(messages')
    /\ ledger' =
          LET now == [started   |-> ledger.started,
                      completed |-> ledger.completed + 1]
          IN  [started   |-> now.started,
               completed |-> now.completed,
               saved     |-> SameLedger(now)]
    /\ UNCHANGED <<selected_models, user_system_prompt, opened, sysid, locals,
                   timer>>
    /\ UNCHANGED <<errors, joined, setsAfterStop, lastCompleted, delivered,
                   replies, refCalls, refRequests, aggCalls, aggRequest,
                   convAtStart, failure, leaked>>

(* ---------------------- script thread: finally ------------------------ *)

\* Line 312: stop_event.set()
SetStop ==
    /\ pc = "finally"
    /\ stop_event' = TRUE
    /\ pc' = "join"
    /\ UNCHANGED <<ledger, session, locals, tpc, value, lock, reading, history>>

\* A join that does not wait for the thread.
JoinWithoutWaiting ==
    /\ pc = "join"
    /\ joined' = TRUE
    /\ pc' = "returned"
    /\ UNCHANGED <<ledger, session, locals, timer>>
    /\ UNCHANGED <<errors, appended, setsAfterStop, lastCompleted, delivered,
                   replies, refCalls, refRequests, aggCalls, aggRequest,
                   convAtStart, failure, leaked>>

\* Line 313: timer_thread.join() returns once run_timer has returned.
Join ==
    /\ pc = "join"
    /\ tpc = "done"
    /\ joined' = TRUE
    /\ pc' = "returned"
    /\ UNCHANGED <<ledger, session, locals, timer>>
    /\ UNCHANGED <<errors, appended, setsAfterStop, lastCompleted, delivered,
                   replies, refCalls, refRequests, aggCalls, aggRequest,
                   convAtStart, failure, leaked>>

\* Lines 315-320: main() is left, by its end or by the exception of line
\* 260, and the script run is over.  Its locals are gone; a timer thread
\* that was not stopped keeps running on its own SharedValue.
EndRun ==
    /\ pc \in {"returned", "escaped"}
    /\ pc' = "idle"
    /\ leaked' = (leaked \/ tpc # "done")
    /\ model' = NONE
    /\ working_models' = <<>>
    /\ data' = EmptyData
    /\ eval_set' = <<>>
    /\ references' = <<>>
    /\ full_response' = ""
    /\ shown' = 0
    /\ getpc' = "none"
    /\ tpc' = "none"
    /\ stop_event' = FALSE
    /\ value' = 0
    /\ lock' = "free"
    /\ reading' = 0
    /\ errors' = 0
    /\ appended' = 0
    /\ joined' = FALSE
    /\ setsAfterStop' = 0
    /\ lastCompleted' = 0
    /\ delivered' = <<>>
    /\ replies' = <<>>
    /\ refCalls' = <<>>
    /\ refRequests' = <<>>
    /\ aggCalls' = 0
    /\ aggRequest' = NoRequest
    /\ convAtStart' = <<>>
    /\ failure' = NONE
    /\ UNCHANGED <<ledger, session>>

(* --------------------- timer thread: run_timer ------------------------ *)

\* A loop that never looks at the stop event.
TimerCheckIgnoringStop ==
    /\ tpc = "check"
    /\ \E t \in reading..MaxElapsed : reading' = t
    /\ tpc' = "acquire"
    /\ UNCHANGED <<ledger, session, pc, locals, stop_event, value, lock, history>>

\* Lines 144-145: the loop test; when the event is not set, the elapsed
\* time is evaluated (the clock never runs backwards) and set is called.
\* The sleep of line 146 precedes the test.
TimerCheck ==
    /\ tpc = "check"
    /\ IF stop_event
       THEN /\ tpc' = "done"
            /\ reading' = reading
       ELSE /\ tpc' = "acquire"
            /\ \E t \in reading..MaxElapsed : reading' = t
    /\ UNCHANGED <<ledger, session, pc, locals, stop_event, value, lock, history>>

\* A set that does not take the lock.
TimerSetWithoutLock ==
    /\ tpc = "acquire"
    /\ tpc' = "write"
    /\ UNCHANGED <<ledger, session, pc, locals, stop_event, value, lock, reading, history>>

\* Line 23: set enters "with self.lock".
TimerSetAcquire ==
    /\ tpc = "acquire"
    /\ lock = "free"
    /\ lock' = "timer"
    /\ tpc' = "write"
    /\ UNCHANGED <<ledger, session, pc, locals, stop_event, value, reading, history>>

\* A set that stores the time left instead of the time elapsed.
TimerSetWriteRemaining ==
    /\ tpc = "write"
    /\ value' = MaxElapsed - reading
    /\ tpc' = "release"
    /\ setsAfterStop' = IF stop_event /\ setsAfterStop < 2
                        THEN setsAfterStop + 1 ELSE setsAfterStop
    /\ UNCHANGED <<ledger, session, pc, locals, stop_event, lock, reading>>
    /\ UNCHANGED <<errors, appended, joined, lastCompleted, delivered, replies,
                   refCalls, refRequests, aggCalls, aggRequest, convAtStart,
                   failure, leaked>>

\* Line 24: the value is stored under the lock.
TimerSetWrite ==
    /\ tpc = "write"
    /\ value' = reading
    /\ tpc' = "release"
    /\ setsAfterStop' = IF stop_event /\ setsAfterStop < 2
                        THEN setsAfterStop + 1 ELSE setsAfterStop
    /\ UNCHANGED <<ledger, session, pc, locals, stop_event, lock, reading>>
    /\ UNCHANGED <<errors, appended, joined, lastCompleted, delivered, replies,
                   refCalls, refRequests, aggCalls, aggRequest, convAtStart,
                   failure, leaked>>

\* Line 24, leaving the with block: set returns; line 146 sleeps.
TimerSetRelease ==
    /\ tpc = "release"
    /\ lock' = "free"
    /\ lastCompleted' = value
    /\ tpc' = "check"
    /\ UNCHANGED <<ledger, session, pc, locals, stop_event, value, reading>>
    /\ UNCHANGED <<errors, appended, joined, setsAfterStop, delivered, replies,
                   refCalls, refRequests, aggCalls, aggRequest, convAtStart,
                   failure, leaked>>

(* --------------------------- specification ---------------------------- *)

TimerThread ==
    \/ TimerCheck
    \/ TimerSetAcquire
    \/ TimerSetWrite
    \/ TimerSetRelease

Sidebar ==
    \E m \in Models : ToggleModel(m)

Turn ==
    \/ \E a \in Models, prompt \in Prompts :
          Len(messages) + 2 <= MaxMessages /\ Prompt(a, prompt)
    \/ ResolveModels
    \/ FromDict
    \/ FromDictRaises
    \/ \E i \in 1..Len(eval_set), text \in Outputs : process_fn(i, text)
    \/ \E i \in 1..Len(eval_set) : process_fn_raises(i)
    \/ MapRaises
    \/ MapReturns
    \/ MapReturnsFromDictRaises
    \/ GetAcquire
    \/ GetRead
    \/ GetRelease
    \/ Aggregate
    \/ AggregateRaises
    \/ \E chunk \in Fragments : NextChunk(chunk)
    \/ StreamRaises
    \/ StreamEnds
    \/ SetStop
    \/ Join
    \/ EndRun

Next == Sidebar \/ Turn \/ TimerThread

Spec == Init /\ [][Next]_vars

\* Thread scheduling is fair: the timer thread keeps running, and the
\* script thread is woken out of join once the timer thread has ended.
\* Nothing is assumed of the model calls.
Fairness == WF_vars(TimerThread) /\ WF_vars(Join)

\* The turns of a session in which only the first reference model is left
\* checked and the checkboxes are not touched again, under fair scheduling.
FairInit == InitSelecting({default_reference_models[1]})

FairNext == Turn \/ TimerThread

FairSpec == FairInit /\ [][FairNext]_vars /\ Fairness

\* The steps of the script thread once a turn has started.
ScriptThread ==
    \/ ResolveModels
    \/ FromDict
    \/ FromDictRaises
    \/ \E i \in 1..Len(eval_set), text \in Outputs : process_fn(i, text)
    \/ \E i \in 1..Len(eval_set) : process_fn_raises(i)
    \/ MapRaises
    \/ MapReturns
    \/ MapReturnsFromDictRaises
    \/ GetAcquire
    \/ GetRead
    \/ GetRelease
    \/ Aggregate
    \/ AggregateRaises
    \/ \E chunk \in Fragments : NextChunk(chunk)
    \/ StreamRaises
    \/ StreamEnds
    \/ SetStop
    \/ Join
    \/ EndRun

\* Both threads are scheduled fairly, the lock is granted to a thread that
\* keeps asking for it, and every call the script thread makes comes back:
\* a reference call returns or raises, the stream delivers, ends or raises.
LiveFairness ==
    /\ WF_vars(TimerThread)
    /\ WF_vars(ScriptThread)
    /\ SF_vars(GetAcquire)

\* The turns of FairSpec when, in addition, no call hangs.
LiveSpec == FairInit /\ [][FairNext]_vars /\ LiveFairness

\* The sessions of several conversations: the sidebar buttons and turns
\* one after the other, each with any outcome.  The conversation shares no
\* variable with the timer thread, so here one reference model is checked,
\* the model calls have one reply and one fragment to give, and the timer
\* thread is scheduled when main() waits for it in join.
SessionButtons ==
    \/ \E user_prompt \in Instructions : UpdateSystemInstructions(user_prompt)
    \/ StartNewConversation
    \/ \E idx \in 1..Len(conversations) : OpenConversation(idx)

SessionTurn ==
    \/ \E prompt \in Prompts :
          /\ Len(messages) + 2 <= MaxSessionMessages
          /\ Len(messages) = 1 => Len(conversations) < MaxConversations
          /\ Prompt(default_reference_models[1], prompt)
    \/ ResolveModels
    \/ FromDict
    \/ FromDictRaises
    \/ \E i \in 1..Len(eval_set) : process_fn(i, "x")
    \/ \E i \in 1..Len(eval_set) : process_fn_raises(i)
    \/ MapRaises
    \/ MapReturns
    \/ MapReturnsFromDictRaises
    \/ GetAcquire
    \/ GetRead
    \/ GetRelease
    \/ Aggregate
    \/ AggregateRaises
    \/ NextChunk("a")
    \/ StreamRaises
    \/ StreamEnds
    \/ SetStop
    \/ pc = "join" /\ TimerCheck
    \/ Join
    \/ EndRun

SessionNext == SessionButtons \/ SessionTurn

SessionSpec == FairInit /\ [][SessionNext]_vars

(* ------------------------------ properties ---------------------------- *)

\* The script run has left main(): by its end, or by an exception that no
\* clause of main() handles.
TurnOver == pc \in {"returned", "escaped"}

\* The concatenation of the fragments, first to last.
RECURSIVE Concat(_)
Concat(chunks) ==
    IF chunks = <<>> THEN "" ELSE Head(chunks) \o Concat(Tail(chunks))

\* The working set the rule of the data model prescribes.
ExpectedWorkingSet ==
    IF selected_models \ {model} # {} THEN selected_models \ {model} ELSE {model}

\* C1: on every exit path of a turn whose timer was started, the stop event
\* has been set and the timer thread has been joined (and so has ended)
\* when the turn is over.
C1_TimerStoppedOnEveryExit ==
    TurnOver => (stop_event /\ joined /\ tpc = "done")

\* The part of C1 the finally clause does guarantee: a turn that entered
\* the try block ends with the timer stopped and joined.
TimerStoppedAfterTry ==
    pc = "returned" => (stop_event /\ joined /\ tpc = "done")

\* C2: a turn that is over has produced exactly one result: an appended
\* assistant message or a reported error, never both, never neither.
C2_ExactlyOneResult ==
    TurnOver => (appended + errors = 1)

\* The part of C2 that holds: whatever the reference calls and the stream
\* do, a turn that entered the try block produces exactly one result.
ExactlyOneResultAfterTry ==
    pc = "returned" => (appended + errors = 1)

\* C3: once a turn has failed, the conversation is what it was when the
\* turn started (the user message last): no assistant message, and so no
\* accumulated fragment, has been appended.
C3_FailedTurnLeavesConversation ==
    errors > 0 =>
        /\ messages = convAtStart
        /\ appended = 0
        /\ messages[Len(messages)].role = "user"

C3_Witness ==
    /\ pc = "returned"
    /\ failure = "stream"
    /\ Len(delivered) = MaxChunks
    /\ full_response # ""

\* C4: for a non-empty selection R and aggregator a, the models the fan-out
\* runs against are R \ {a}, or a alone when R \ {a} is empty, each once.
C4_WorkingSet ==
    (selected_models # {} /\ pc \notin {"idle", "timer_started"}) =>
        /\ Range(working_models) = ExpectedWorkingSet
        /\ Len(working_models) = Cardinality(ExpectedWorkingSet)
        /\ pc = "map" =>
              /\ Len(eval_set) = Len(working_models)
              /\ \A i \in 1..Len(eval_set) :
                    /\ eval_set[i].model = working_models[i]
                    /\ refCalls[i] = 1 => refRequests[i].model = working_models[i]

C4_Witness ==
    /\ pc = "map"
    /\ selected_models = {model}
    /\ working_models = <<model>>
    /\ refCalls = <<1>>
    /\ refRequests[1].model = model

\* C5: the fan-out is all or nothing.  No model is called twice; when map
\* has returned there is one reference per model of the working set, the
\* text its one call returned; when a worker has failed no reference is
\* collected, the aggregator is never called and, once map has raised, the
\* turn has failed with one reported error.
C5_FanOutAllOrNothing ==
    /\ \A i \in 1..Len(refCalls) : refCalls[i] <= 1
    /\ (pc \in {"progress", "aggregate", "streaming", "stream_get"} \/ aggCalls > 0) =>
          /\ Len(references) = Len(working_models)
          /\ \A i \in 1..Len(working_models) :
                /\ refCalls[i] = 1
                /\ references[i] = replies[i]
                /\ references[i] \in Outputs
    /\ failure = "reference" =>
          /\ references = <<>>
          /\ aggCalls = 0
          /\ appended = 0
          /\ pc \in {"map", "finally", "join", "returned"}
          /\ pc # "map" => errors = 1

C5_Witness ==
    /\ pc = "returned"
    /\ failure = "reference"
    /\ \E i, j \in 1..Len(replies) : replies[i] # NONE /\ refCalls[j] = 1 /\ replies[j] = NONE

\* C6: the content of the assistant message a completed turn appends is the
\* concatenation of the delivered fragments in arrival order.
C6_AnswerIsConcatenation ==
    appended > 0 =>
        /\ appended = 1
        /\ messages = Append(convAtStart, Message("assistant", Concat(delivered)))

C6_Witness ==
    /\ pc = "returned"
    /\ appended = 1
    /\ delivered = <<"a", "b">>

\* C7: the aggregator is called once at most, with the conversation and
\* with exactly the texts the reference calls returned, one per model of
\* the working set, in row order.
C7_AggregatorGetsAllReferences ==
    aggCalls > 0 =>
        /\ aggCalls = 1
        /\ aggRequest.model = model
        /\ aggRequest.messages = convAtStart
        /\ Len(aggRequest.references) = Len(working_models)
        /\ \A i \in 1..Len(working_models) :
              /\ refRequests[i].model = working_models[i]
              /\ aggRequest.references[i] = replies[i]

C7_Witness ==
    /\ aggCalls = 1
    /\ Len(working_models) = 2
    /\ aggRequest.references = <<"x", "y">>

\* C8: once timer_thread.join() has returned, no step of the timer thread
\* writes the SharedValue.
C8_NoWriteAfterJoin ==
    [][joined => ~TimerSetWrite]_vars

C8_Witness ==
    /\ joined
    /\ pc = "returned"
    /\ tpc = "done"
    /\ value > 0

\* C9: after the stop event is set the timer thread stores at most one more
\* value, and under fair scheduling it ends and join returns.
C9_TimerStopsWithinOneIteration ==
    /\ [](setsAfterStop <= 1)
    /\ (stop_event ~> tpc = "done")
    /\ (pc = "join" ~> joined)

C9_Witness ==
    /\ setsAfterStop = 1
    /\ joined
    /\ tpc = "done"

\* C10: set and get exclude each other, each holding the lock in its
\* critical section, and the value get reads is the one stored by the last
\* set that has returned (0 before any has).
C10_SharedValueLinearizable ==
    /\ ~(tpc \in {"write", "release"} /\ getpc \in {"locked", "read"})
    /\ tpc \in {"write", "release"} => lock = "timer"
    /\ getpc \in {"locked", "read"} => lock = "main"
    /\ getpc = "read" => shown = lastCompleted

C10_Witness ==
    /\ getpc = "read"
    /\ shown > 0
    /\ tpc = "acquire"
    /\ reading > shown

\* The script thread is past eval_set.map, inside or after the try block.
PastFanOut ==
    pc \in {"progress", "aggregate", "streaming", "stream_get", "finally",
            "join", "returned"}

\* C11: the script thread is past the fan-out (aggregating, completed or
\* failed) only when the call of every row's worker has returned or raised;
\* while a call is outstanding the script thread stays in eval_set.map.
C11_JoinBarrier ==
    /\ PastFanOut =>
          /\ Len(refCalls) = Len(working_models)
          /\ \A i \in 1..Len(refCalls) : refCalls[i] = 1
    /\ (aggCalls > 0 \/ appended > 0 \/ errors > 0) => PastFanOut

C11_Witness ==
    /\ pc = "map"
    /\ \E i, j \in 1..Len(eval_set) :
          /\ eval_set[i].output = RAISED
          /\ eval_set[j].output = NONE
          /\ refCalls[j] = 0

\* C12: the request of every worker carries the whole conversation, the
\* user message of the turn last, and an empty reference list, whatever
\* the other workers have returned by then.
C12_WorkersSeeOnlyConversation ==
    \A i \in 1..Len(refCalls) :
        refCalls[i] > 0 =>
            /\ refRequests[i].messages = convAtStart
            /\ refRequests[i].messages[Len(convAtStart)].role = "user"
            /\ refRequests[i].references = <<>>
            /\ refRequests[i].model = working_models[i]

C12_Witness ==
    /\ pc = "map"
    /\ refCalls = <<0, 1>>
    /\ replies[2] \in Outputs
    /\ refRequests[2].references = <<>>

\* C13: for every selection, the empty one included, the working set is
\* not empty, and the fan-out has one worker process and one row per model
\* of it.
C13_WorkingSetNonEmpty ==
    pc \notin {"idle", "timer_started"} =>
        /\ Len(working_models) >= 1
        /\ Cardinality(Range(working_models)) = Len(working_models)
        /\ pc = "map" =>
              /\ num_proc = Cardinality(Range(working_models))
              /\ Len(eval_set) = num_proc
              /\ num_proc >= 1

C13_Witness ==
    /\ pc = "map"
    /\ selected_models = {}
    /\ working_models = <<model>>
    /\ num_proc = 1
    /\ refCalls = <<1>>

\* C14: during a turn the stored elapsed time changes only by the timer
\* thread's set and never decreases, and neither does the value the script
\* thread reads.
C14_ElapsedTimeMonotonic ==
    [][(pc # "idle" /\ pc' # "idle") =>
          /\ value' >= value
          /\ shown' >= shown
          /\ value' # value => TimerSetWrite
          /\ shown' # shown => GetRead]_vars

C14_Witness ==
    /\ pc = "streaming"
    /\ shown > 0
    /\ value > shown

\* C16: from the append of the user message to the end of the stream the
\* conversation does not change, so the aggregator is sent the conversation
\* every reference model was sent; the assistant message is appended only
\* when the stream has ended, and nothing else is.
C16_ConversationExtendedAtEndsOnly ==
    /\ pc \in {"timer_started", "from_dict", "map", "progress", "aggregate",
               "streaming", "stream_get"} =>
          /\ messages = convAtStart
          /\ appended = 0
    /\ pc # "idle" =>
          /\ convAtStart[Len(convAtStart)].role = "user"
          /\ \/ messages = convAtStart
             \/ /\ appended = 1
                /\ messages = Append(convAtStart, Message("assistant", full_response))
    /\ aggCalls > 0 =>
          /\ aggRequest.messages = convAtStart
          /\ \A i \in 1..Len(refRequests) : refRequests[i].messages = aggRequest.messages

C16_Witness ==
    /\ pc = "returned"
    /\ appended = 1
    /\ Len(working_models) = 2
    /\ delivered # <<>>
    /\ refRequests[2].messages = aggRequest.messages

\* The messages of list that have role r.
Count(list, r) ==
    Cardinality({i \in 1..Len(list) : list[i].role = r})

\* A list with one system message, the first.
OneSystemMessageFirst(list) ==
    /\ Len(list) >= 1
    /\ list[1].role = "system"
    /\ \A i \in 2..Len(list) : list[i].role # "system"

\* C15: whatever prompts, turn outcomes and sidebar buttons came before,
\* the conversation has exactly one system message and it is element 0;
\* so has every saved conversation.
C15_OneSystemMessageFirst ==
    /\ OneSystemMessageFirst(messages)
    /\ \A k \in 1..Len(conversations) :
          OneSystemMessageFirst(conversations[k].messages)

C15_Witness ==
    /\ pc = "idle"
    /\ opened = 1
    /\ user_system_prompt = "brief"
    /\ messages[1].content = combined_prompt("brief")
    /\ conversations[1].messages = messages
    /\ leaked
    /\ Len(messages) = 4
    /\ messages[3].role = "user"

\* C17: after any turns, every assistant message directly follows a user
\* message, the conversation has one assistant message per completed turn
\* and one user message per started turn, and a failed turn ends with its
\* user message last.
C17_TurnsAndMessages ==
    /\ \A i \in 1..Len(messages) :
          messages[i].role = "assistant" =>
              i > 1 /\ messages[i - 1].role = "user"
    /\ Count(messages, "assistant") = ledger.completed
    /\ Count(messages, "user") = ledger.started
    /\ (failure # NONE /\ pc # "idle") =>
          messages[Len(messages)].role = "user"

C17_Witness ==
    /\ pc = "idle"
    /\ opened = 0
    /\ Len(messages) = 4
    /\ ledger.started = 2
    /\ ledger.completed = 1
    /\ messages[3].role = "user"
    /\ messages[4].role = "assistant"

\* C18: when no call hangs, every started turn ends completed or failed,
\* with its timer thread terminated.
C18_EveryTurnEnds ==
    (pc = "timer_started") ~>
        (pc = "returned" /\ tpc = "done" /\ appended + errors = 1)

\* The part of C18 that holds: a turn that entered the try block ends
\* completed or failed, with its timer thread terminated.
EveryTurnEndsAfterTry ==
    (pc = "map") ~>
        (pc = "returned" /\ tpc = "done" /\ appended + errors = 1)

====
